---- MODULE Spec2Model ----
(***************************************************************************)
(* Model of elvui-manager (src/main.rs): main() fetches the latest         *)
(* published version, reads the installed version from the add-on's        *)
(* manifest, compares the two and, when needed, runs install(), which      *)
(* downloads the archive into a temporary directory, extracts it and       *)
(* replaces the three add-on directories one after the other.              *)
(*                                                                         *)
(* Strings are sequences of one-character strings.  Every `?` of the code  *)
(* is an early return with an error, every unwrap() on a value that can be *)
(* absent is a panic.  The build is the default one (panic = unwind), so a *)
(* panic inside install() drops the TempDir guard like an early return.    *)
(***************************************************************************)
EXTENDS Integers, Sequences, FiniteSets, TLC

VARIABLES
    pc,              \* position of the run in main()/install()
    httpStatus,      \* network: status of the response to the version request
    latest_version,  \* main: latest_version (String) or NoString
    installed,       \* main: outcome of fetch_installed_version
    install_needed,  \* main: install_needed
    cmp,             \* main: outcome of installed.compare(latest)
    installVersion,  \* install: the `version` argument, NoString before the call
    addonsIsDir,     \* filesystem: addons_path.is_dir()
    dirs,            \* filesystem: content of each target directory under addons_path
    dirs0,           \* content of each target directory when the run started
    manifest,        \* filesystem: addons_path/ElvUI/ElvUI_Mainline.toc
    tempdir,         \* filesystem: the directory owned by the TempDir guard
    zipfile,         \* filesystem: tempdir/elvui.zip
    archive,         \* the body of the download response
    extracted,       \* filesystem: directories present in tempdir/elvui
    requested,       \* network: a GET for the archive was issued
    i,               \* install: position of the `for target in targets` loop
    err              \* the statement whose error ended the run, "none" otherwise

vars == <<pc, httpStatus, latest_version, installed, install_needed, cmp, installVersion,
          addonsIsDir, dirs, dirs0, manifest, tempdir, zipfile, archive,
          extracted, requested, i, err>>

-----------------------------------------------------------------------------
(* Bounds of the model *)

\* lines of a manifest after its optional header line in SpecManifest
MaxLines == 1
\* characters after "Version: " on a manifest line in SpecManifest
MaxValLen == 3
\* characters after "Version: " on the manifest line in Spec
MaxVerLen == 2
\* characters of the latest version string in Spec
MaxLatestLen == 2
\* characters of each of the two version strings in SpecCompare
MaxCmpLen == 3

-----------------------------------------------------------------------------
(* Strings *)

Digits == {"0", "1", "2"}

\* characters of manifest values in SpecManifest ("e" stands for any letter)
ManifestChars == {"1", ".", "|", "e"}

\* characters of manifest values in Spec
VerChars == {"1", "2", ".", "|"}

\* characters of the version strings in SpecCompare
CmpChars == {"0", "1", "2", "."}

\* characters of the scraped latest version in Spec
LatestChars == {"1", "2", ".", "e"}

Strings(chars, n) == UNION {[1..m -> chars] : m \in 0..n}

NoString == <<"<none>">>

DigitValue(c) == IF c = "1" THEN 1 ELSE IF c = "2" THEN 2 ELSE 0

\* the longest prefix of s made of characters satisfying the class
RECURSIVE Run(_, _)
Run(s, class) ==
    IF s = <<>> \/ Head(s) \notin class THEN <<>>
    ELSE <<Head(s)>> \o Run(Tail(s), class)

Drop(s, n) == SubSeq(s, n + 1, Len(s))

-----------------------------------------------------------------------------
(* fetch_installed_version: the regular expression *)

\* a manifest line is either "## Version: <value>" (key) or other text
OtherLine == [key |-> FALSE, value |-> <<>>]

Lines(chars, n) == {OtherLine} \cup {[key |-> TRUE, value |-> v] : v \in Strings(chars, n)}

Texts(chars, nl, n) == UNION {[1..m -> Lines(chars, n)] : m \in 0..nl}

MissingFile == [kind |-> "missing", lines |-> <<>>]
UnreadableFile == [kind |-> "unreadable", lines |-> <<>>]
FreshFile == [kind |-> "fresh", lines |-> <<>>]

\* readable manifests: an optional header line, then up to nl lines
TextFiles(chars, nl, n) ==
    {[kind |-> "text", lines |-> h \o t] : h \in {<<>>, <<OtherLine>>}, t \in Texts(chars, nl, n)}

\* the character class [|\d\.] without the vertical bar
VersionClassNoBar == Digits \cup {"."}

\* the character class [|\d\.] of the pattern
VersionClass == Digits \cup {".", "|"}

\* the pattern matches on this line: "Version: " followed by at least one
\* character of the class
LineMatches(line) ==
    line.key /\ line.value # <<>> /\ Head(line.value) \in VersionClass

\* re.captures(&content): the leftmost match, NoString when there is none
RECURSIVE Captures(_)
Captures(lines) ==
    IF lines = <<>> THEN NoString
    ELSE IF LineMatches(Head(lines)) THEN Run(Head(lines).value, VersionClass)
    ELSE Captures(Tail(lines))

\* no match is reported as a missing file instead of the unwrap() panic
fetch_installed_version_err(m) ==
    IF m.kind = "missing" THEN [kind |-> "NotFound", version |-> NoString]
    ELSE IF m.kind # "text" THEN [kind |-> "IoError", version |-> NoString]
    ELSE IF Captures(m.lines) = NoString THEN [kind |-> "NotFound", version |-> NoString]
    ELSE [kind |-> "Ok", version |-> Captures(m.lines)]

\* fetch_installed_version(addons_path) on manifest m
fetch_installed_version(m) ==
    IF m.kind = "missing" THEN [kind |-> "NotFound", version |-> NoString]
    ELSE IF m.kind # "text" THEN [kind |-> "IoError", version |-> NoString]
    ELSE IF Captures(m.lines) = NoString THEN [kind |-> "NoMatch", version |-> NoString]
    ELSE [kind |-> "Ok", version |-> Captures(m.lines)]

NotRead == [kind |-> "unread", version |-> NoString]

-----------------------------------------------------------------------------
(* Version::from and Version::compare of the version_compare crate *)

IsAlnum(c) == c \in Digits \cup {"e"}

\* a text part of a version
TextPart == -1

RECURSIVE Number(_, _)
Number(s, acc) ==
    IF s = <<>> THEN acc ELSE Number(Tail(s), 10 * acc + DigitValue(Head(s)))

\* one segment between separators: a number, a number followed by text, or text
SegmentParts(seg) ==
    LET d == Run(seg, Digits)
    IN  IF d = seg THEN <<Number(seg, 0)>>
        ELSE IF d # <<>> THEN <<Number(d, 0), TextPart>>
        ELSE <<TextPart>>

\* the parts of s: split at every character that is not alphanumeric, skip
\* empty segments
RECURSIVE SplitParts(_)
SplitParts(s) ==
    IF s = <<>> THEN <<>>
    ELSE IF ~IsAlnum(Head(s)) THEN SplitParts(Tail(s))
    ELSE LET seg == Run(s, Digits \cup {"e"})
         IN  SegmentParts(seg) \o SplitParts(Drop(s, Len(seg)))

NoVersion == <<-2>>

\* Version::from(s): None when parts were parsed and none of them is a number
VersionFrom(s) ==
    LET p == SplitParts(s)
    IN  IF p # <<>> /\ \A k \in 1..Len(p) : p[k] = TextPart THEN NoVersion ELSE p

\* a version that runs out of parts first is the smaller one
RECURSIVE CompareIterNoPad(_, _)
CompareIterNoPad(a, b) ==
    IF a = <<>> THEN (IF b = <<>> THEN "Eq" ELSE "Lt")
    ELSE IF b = <<>> THEN "Gt"
    ELSE IF Head(a) # TextPart /\ Head(b) # TextPart /\ Head(a) < Head(b) THEN "Lt"
    ELSE IF Head(a) # TextPart /\ Head(b) # TextPart /\ Head(a) > Head(b) THEN "Gt"
    ELSE CompareIterNoPad(Tail(a), Tail(b))

Flip(c) == IF c = "Lt" THEN "Gt" ELSE IF c = "Gt" THEN "Lt" ELSE c

\* compare_iter: numbers decide at the first difference, a missing part counts
\* as zero, text parts never decide
RECURSIVE CompareIter(_, _)
CompareIter(a, b) ==
    IF a = <<>> THEN (IF b = <<>> THEN "Eq" ELSE Flip(CompareIter(b, a)))
    ELSE IF b = <<>>
         THEN IF Head(a) = TextPart \/ Head(a) = 0 THEN CompareIter(Tail(a), b)
              ELSE "Gt"
    ELSE IF Head(a) # TextPart /\ Head(b) # TextPart /\ Head(a) < Head(b) THEN "Lt"
    ELSE IF Head(a) # TextPart /\ Head(b) # TextPart /\ Head(a) > Head(b) THEN "Gt"
    ELSE CompareIter(Tail(a), Tail(b))

\* the match on the comparison treats Equal like Less
NeedsInstallEq(c) == c \in {"Lt", "Eq"}

\* install_needed = match installed.compare(latest) { Lt => true, Eq | Gt => false }
NeedsInstall(c) == c = "Lt"

\* install_needed starts false
InstallNeededDefaultFalse == FALSE

\* let mut install_needed = true
InstallNeededDefault == TRUE

-----------------------------------------------------------------------------
(* install: targets, errors *)

\* the first two targets are listed the other way round
TargetsReordered == <<"ElvUI_Options", "ElvUI", "ElvUI_Libraries">>

\* lines 143-147: let targets: [String; 3] = [...]
Targets == <<"ElvUI", "ElvUI_Options", "ElvUI_Libraries">>

TargetSet == {Targets[k] : k \in 1..Len(Targets)}

\* the directories under addons_path: the targets and one that is no target
AddonDirs == TargetSet \cup {"Other"}

\* the Rust type of the error value the run ends with
ErrorType(e) ==
    CASE e \in {"FetchLatestFailed", "DownloadFailed", "CopyFailed"} -> "reqwest::Error"
      [] e \in {"AddonsPathMissing", "VersionElementMissing"} -> "anyhow message"
      [] e = "ExtractFailed" -> "zip::result::ZipError"
      [] e \in {"TempdirFailed", "CreateFailed", "OpenFailed", "RemoveFailed",
                "RenameFailed", "CloseFailed"} -> "std::io::Error"
      [] OTHER -> "none"

\* the TempDir guard is leaked instead of dropped
DropTempDirKeep(td) == td

\* the TempDir guard goes out of scope: its directory is removed
DropTempDir(td) == IF td = "exists" THEN "removed" ELSE td

-----------------------------------------------------------------------------
(* The archive served for the download *)

NoArchive == [valid |-> FALSE, dirs |-> {"<none>"}]

CorruptArchive == [valid |-> FALSE, dirs |-> {}]

Archives == {CorruptArchive} \cup {[valid |-> TRUE, dirs |-> S] : S \in SUBSET AddonDirs}

-----------------------------------------------------------------------------
(* Initial states *)

InitRun ==
    /\ httpStatus = "none"
    /\ latest_version = NoString
    /\ installed = NotRead
    /\ install_needed = InstallNeededDefault
    /\ cmp = "None"
    /\ installVersion = NoString
    /\ tempdir = "none"
    /\ zipfile = "absent"
    /\ archive = NoArchive
    /\ extracted = {}
    /\ requested = FALSE
    /\ i = 1
    /\ err = "none"

\* the run starts on any add-ons tree: the root may be missing, each target
\* directory may be installed or not, the manifest lives inside ElvUI
Init ==
    /\ pc = "fetch_latest"
    /\ InitRun
    /\ addonsIsDir \in BOOLEAN
    /\ dirs \in [AddonDirs -> {"absent", "old"}]
    /\ dirs["Other"] = "old" <=> addonsIsDir
    /\ ~addonsIsDir => \A t \in TargetSet : dirs[t] = "absent"
    /\ dirs0 = dirs
    /\ manifest \in IF dirs["ElvUI"] = "old"
                    THEN {MissingFile, UnreadableFile} \cup TextFiles(VerChars, 1, MaxVerLen)
                    ELSE {MissingFile}

-----------------------------------------------------------------------------
(* main *)

\* an error return or a panic leaves install(): locals are dropped
Leave(to, e) ==
    /\ pc' = to
    /\ err' = e
    /\ tempdir' = DropTempDir(tempdir)
    /\ IF tempdir' = "removed"
       THEN zipfile' = "absent" /\ extracted' = {}
       ELSE UNCHANGED <<zipfile, extracted>>

\* line 40: let latest_version = fetch_latest_version()?
\* lines 93-94: get(url)?.text()? fails when the request or the read of the
\* body fails; the status of the response is not looked at.
\* lines 100-109: the version is the inner HTML of the first b.Premium inside
\* the first div#version of the body (body = NoString when there is none).
FetchLatest ==
    /\ pc = "fetch_latest"
    /\ \E sent \in BOOLEAN, status \in {"success", "error"},
          body \in {NoString} \cup Strings(LatestChars, MaxLatestLen) :
         IF ~sent
         THEN /\ pc' = "failed"
              /\ err' = "FetchLatestFailed"
              /\ UNCHANGED <<httpStatus, latest_version>>
         ELSE /\ httpStatus' = status
              /\ IF body = NoString
                 THEN /\ pc' = "failed"
                      /\ err' = "VersionElementMissing"
                      /\ UNCHANGED latest_version
                 ELSE /\ latest_version' = body
                      /\ pc' = "fetch_installed"
                      /\ UNCHANGED err
    /\ UNCHANGED <<installed, install_needed, cmp, installVersion, addonsIsDir, dirs,
                   dirs0, manifest, tempdir, zipfile, archive, extracted, requested, i>>

\* line 44: let result = fetch_installed_version(&args.addons_path)
FetchInstalled ==
    /\ pc = "fetch_installed"
    /\ installed' = fetch_installed_version(manifest)
    /\ pc' = IF installed'.kind = "NoMatch" THEN "panicked" ELSE "compare"
    /\ UNCHANGED <<httpStatus, latest_version, install_needed, cmp, installVersion, addonsIsDir,
                   dirs, dirs0, manifest, tempdir, zipfile, archive, extracted,
                   requested, i, err>>

\* lines 45-60: if result.is_ok() { ... install_needed = match compare ... }
Compare ==
    /\ pc = "compare"
    /\ IF installed.kind = "Ok"
       THEN LET a == VersionFrom(installed.version)
                b == VersionFrom(latest_version)
            IN  IF a = NoVersion \/ b = NoVersion
                THEN /\ pc' = "panicked"
                     /\ UNCHANGED <<cmp, install_needed>>
                ELSE /\ cmp' = CompareIter(a, b)
                     /\ install_needed' = NeedsInstall(cmp')
                     /\ pc' = "decide"
       ELSE /\ pc' = "decide"
            /\ UNCHANGED <<cmp, install_needed>>
    /\ UNCHANGED <<httpStatus, latest_version, installed, installVersion, addonsIsDir, dirs, dirs0,
                   manifest, tempdir, zipfile, archive, extracted, requested, i, err>>

\* lines 62-67: if install_needed == true { install(&args.addons_path, latest_version)?; }
Decide ==
    /\ pc = "decide"
    /\ IF install_needed
       THEN installVersion' = latest_version /\ pc' = "install_check"
       ELSE pc' = "done" /\ UNCHANGED installVersion
    /\ UNCHANGED <<httpStatus, latest_version, installed, install_needed, cmp, addonsIsDir, dirs,
                   dirs0, manifest, tempdir, zipfile, archive, extracted, requested, i,
                   err>>

-----------------------------------------------------------------------------
(* install *)

mainVars == <<httpStatus, latest_version, installed, install_needed, cmp, installVersion,
              addonsIsDir, dirs0>>

\* the is_dir check is left out
InstallCheckSkip ==
    /\ pc = "install_check"
    /\ pc' = "tempdir"
    /\ UNCHANGED <<err, tempdir, zipfile, extracted>>
    /\ UNCHANGED <<mainVars, dirs, manifest, archive, requested, i>>

\* lines 113-115: if !addons_path.is_dir() { bail!(...) }
InstallCheck ==
    /\ pc = "install_check"
    /\ IF ~addonsIsDir
       THEN Leave("failed", "AddonsPathMissing")
       ELSE pc' = "tempdir" /\ UNCHANGED <<err, tempdir, zipfile, extracted>>
    /\ UNCHANGED <<mainVars, dirs, manifest, archive, requested, i>>

\* lines 118-120: let tempdir = Builder::new().prefix("elvui-manager").tempdir()?
MakeTempdir ==
    /\ pc = "tempdir"
    /\ \E ok \in BOOLEAN :
         IF ok
         THEN /\ tempdir' = "exists"
              /\ pc' = "download"
              /\ UNCHANGED <<err, zipfile, extracted>>
         ELSE Leave("failed", "TempdirFailed")
    /\ UNCHANGED <<mainVars, dirs, manifest, archive, requested, i>>

\* lines 124-127: let mut response = reqwest::blocking::get(url)?
Download ==
    /\ pc = "download"
    /\ requested' = TRUE
    /\ \E ok \in BOOLEAN :
         IF ok
         THEN pc' = "create" /\ UNCHANGED <<err, tempdir, zipfile, extracted>>
         ELSE Leave("failed", "DownloadFailed")
    /\ UNCHANGED <<mainVars, dirs, manifest, archive, i>>

\* line 131: let mut file = File::create(&filename)?
CreateFile ==
    /\ pc = "create"
    /\ \E ok \in BOOLEAN :
         IF ok
         THEN /\ zipfile' = "empty"
              /\ pc' = "copy"
              /\ UNCHANGED <<err, tempdir, extracted>>
         ELSE Leave("failed", "CreateFailed")
    /\ UNCHANGED <<mainVars, dirs, manifest, archive, requested, i>>

\* line 132: response.copy_to(&mut file)?
CopyBody ==
    /\ pc = "copy"
    /\ \E ok \in BOOLEAN :
         IF ok
         THEN /\ \E a \in Archives : archive' = a
              /\ zipfile' = "written"
              /\ pc' = "open"
              /\ UNCHANGED <<err, tempdir, extracted>>
         ELSE Leave("failed", "CopyFailed") /\ UNCHANGED archive
    /\ UNCHANGED <<mainVars, dirs, manifest, requested, i>>

\* line 137: let file = File::open(&filename)?
OpenFile ==
    /\ pc = "open"
    /\ \E ok \in BOOLEAN :
         IF ok
         THEN pc' = "zipnew" /\ UNCHANGED <<err, tempdir, zipfile, extracted>>
         ELSE Leave("failed", "OpenFailed")
    /\ UNCHANGED <<mainVars, dirs, manifest, archive, requested, i>>

\* line 138: let mut archive = zip::ZipArchive::new(&file).unwrap()
ZipNew ==
    /\ pc = "zipnew"
    /\ IF archive.valid
       THEN pc' = "extract" /\ UNCHANGED <<err, tempdir, zipfile, extracted>>
       ELSE Leave("panicked", "none")
    /\ UNCHANGED <<mainVars, dirs, manifest, archive, requested, i>>

\* the archive is extracted over the add-ons root instead of the temporary
\* directory: a failing extraction has already overwritten part of a target
ExtractInPlace ==
    /\ pc = "extract"
    /\ \E ok \in BOOLEAN :
         IF ok
         THEN /\ extracted' = archive.dirs
              /\ pc' = "swap"
              /\ UNCHANGED <<err, tempdir, zipfile, dirs>>
         ELSE /\ Leave("failed", "ExtractFailed")
              /\ dirs' = [dirs EXCEPT ![Targets[i]] = "partial"]
    /\ UNCHANGED <<mainVars, manifest, archive, requested, i>>

\* line 139: archive.extract(&extracted_path)?
Extract ==
    /\ pc = "extract"
    /\ \E ok \in BOOLEAN :
         IF ok
         THEN /\ extracted' = archive.dirs
              /\ pc' = "swap"
              /\ UNCHANGED <<err, tempdir, zipfile>>
         ELSE Leave("failed", "ExtractFailed")
    /\ UNCHANGED <<mainVars, dirs, manifest, archive, requested, i>>

\* lines 148-154: if target_path.is_dir() { std::fs::remove_dir_all(&target_path)?; }
\* a failed remove_dir_all may already have deleted part of the tree
SwapRemove ==
    /\ pc = "swap"
    /\ LET t == Targets[i]
       IN  IF dirs[t] # "absent"
           THEN \E ok \in BOOLEAN :
                  IF ok
                  THEN /\ dirs' = [dirs EXCEPT ![t] = "absent"]
                       /\ manifest' = IF t = "ElvUI" THEN MissingFile ELSE manifest
                       /\ pc' = "rename"
                       /\ UNCHANGED <<err, tempdir, zipfile, extracted>>
                  ELSE /\ \E c \in {dirs[t], "partial"} : dirs' = [dirs EXCEPT ![t] = c]
                       /\ manifest' \in IF t = "ElvUI" /\ dirs'[t] = "partial"
                                        THEN {manifest, MissingFile}
                                        ELSE {manifest}
                       /\ Leave("failed", "RemoveFailed")
           ELSE /\ pc' = "rename"
                /\ UNCHANGED <<err, tempdir, zipfile, extracted, dirs, manifest>>
    /\ UNCHANGED <<mainVars, archive, requested, i>>

\* the result of the rename is ignored and the loop goes on
SwapRenameIgnore ==
    /\ pc = "rename"
    /\ LET t == Targets[i]
       IN  \E ok \in BOOLEAN :
             /\ IF ok /\ t \in extracted
                THEN /\ dirs' = [dirs EXCEPT ![t] = "new"]
                     /\ manifest' = IF t = "ElvUI" THEN FreshFile ELSE manifest
                     /\ extracted' = extracted \ {t}
                ELSE UNCHANGED <<dirs, manifest, extracted>>
             /\ i' = i + 1
             /\ pc' = IF i = Len(Targets) THEN "close" ELSE "swap"
             /\ UNCHANGED <<err, tempdir, zipfile>>
    /\ UNCHANGED <<mainVars, archive, requested>>

\* lines 157-161: std::fs::rename(extracted_path.join(&target), &target_path)?
SwapRename ==
    /\ pc = "rename"
    /\ LET t == Targets[i]
       IN  \E ok \in BOOLEAN :
             IF ok /\ t \in extracted
             THEN /\ dirs' = [dirs EXCEPT ![t] = "new"]
                  /\ manifest' = IF t = "ElvUI" THEN FreshFile ELSE manifest
                  /\ extracted' = extracted \ {t}
                  /\ i' = i + 1
                  /\ pc' = IF i = Len(Targets) THEN "close" ELSE "swap"
                  /\ UNCHANGED <<err, tempdir, zipfile>>
             ELSE /\ Leave("failed", "RenameFailed")
                  /\ UNCHANGED <<dirs, manifest, i>>
    /\ UNCHANGED <<mainVars, archive, requested>>

\* lines 165-166: tempdir.close()?; Ok(())
Close ==
    /\ pc = "close"
    /\ \E ok \in BOOLEAN :
         IF ok
         THEN /\ tempdir' = "removed"
              /\ zipfile' = "absent"
              /\ extracted' = {}
              /\ pc' = "done"
              /\ UNCHANGED err
         ELSE /\ pc' = "failed"
              /\ err' = "CloseFailed"
              /\ UNCHANGED <<tempdir, zipfile, extracted>>
    /\ UNCHANGED <<mainVars, dirs, manifest, archive, requested, i>>

-----------------------------------------------------------------------------
(* Specifications *)

Next ==
    \/ FetchLatest
    \/ FetchInstalled
    \/ Compare
    \/ Decide
    \/ InstallCheck
    \/ MakeTempdir
    \/ Download
    \/ CreateFile
    \/ CopyBody
    \/ OpenFile
    \/ ZipNew
    \/ Extract
    \/ SwapRemove
    \/ SwapRename
    \/ Close

Spec == Init /\ [][Next]_vars

\* fetch_installed_version alone, on manifests of several lines
InitManifest ==
    /\ pc = "fetch_installed"
    /\ InitRun
    /\ addonsIsDir = TRUE
    /\ dirs = [t \in AddonDirs |-> "old"]
    /\ dirs0 = dirs
    /\ manifest \in {MissingFile, UnreadableFile}
                    \cup TextFiles(ManifestChars, MaxLines, MaxValLen)

NextManifest == FetchInstalled

SpecManifest == InitManifest /\ [][NextManifest]_vars

\* lines 49-58 alone, on every pair of version strings
InitCompare ==
    /\ pc = "compare"
    /\ httpStatus = "success"
    /\ latest_version \in Strings(CmpChars, MaxCmpLen)
    /\ \E v \in Strings(CmpChars, MaxCmpLen) \ {<<>>} :
         manifest = [kind |-> "text", lines |-> <<[key |-> TRUE, value |-> v]>>]
    /\ installed = fetch_installed_version(manifest)
    /\ install_needed = InstallNeededDefault
    /\ cmp = "None"
    /\ installVersion = NoString
    /\ addonsIsDir = TRUE
    /\ dirs = [t \in AddonDirs |-> "old"]
    /\ dirs0 = dirs
    /\ tempdir = "none"
    /\ zipfile = "absent"
    /\ archive = NoArchive
    /\ extracted = {}
    /\ requested = FALSE
    /\ i = 1
    /\ err = "none"

NextCompare == Compare

SpecCompare == InitCompare /\ [][NextCompare]_vars

Terminated == pc \in {"done", "failed", "panicked"}

-----------------------------------------------------------------------------
(* Claims *)

InstallCalled == installVersion # NoString

\* C1: when the add-ons root is not a directory, install fails at once: no
\* temporary directory is created, no download request is issued and nothing
\* on the filesystem has changed when the error is returned.
C1_TargetMissingFailsFirst ==
    (InstallCalled /\ ~addonsIsDir /\ pc # "install_check")
        => /\ pc = "failed"
           /\ err = "AddonsPathMissing"
           /\ tempdir = "none"
           /\ zipfile = "absent"
           /\ extracted = {}
           /\ ~requested
           /\ dirs = dirs0

C1_Witness ==
    pc = "failed" /\ err = "AddonsPathMissing" /\ InstallCalled /\ ~addonsIsDir

\* the exits of install the claim lists: success, download failure, file-write
\* failure, extraction failure (error or panic), failure of a remove or rename
ListedExit ==
    \/ pc = "done"
    \/ pc = "panicked"
    \/ pc = "failed" /\ err \in {"DownloadFailed", "CreateFailed", "CopyFailed",
                                 "OpenFailed", "ExtractFailed", "RemoveFailed",
                                 "RenameFailed"}

\* C2: once install has created its temporary directory, the directory (and
\* what it holds) no longer exists when install is left through success, a
\* download failure, a file-write failure, an extraction failure or a failed
\* remove or rename of the swap loop.
C2_ScratchRemovedOnExit ==
    (tempdir # "none" /\ ListedExit)
        => tempdir = "removed" /\ zipfile = "absent" /\ extracted = {}

C2_Witness ==
    pc = "failed" /\ err = "RenameFailed" /\ tempdir = "removed" /\ i = 2

\* C3: a target directory that was installed when the run started is never
\* found deleted or half deleted, except during its own swap while its
\* replacement exists in the extracted archive.
C3_NoDeleteWithoutReplacement ==
    \A t \in TargetSet :
        (dirs0[t] = "old" /\ dirs[t] \notin {"old", "new"})
            => (pc = "rename" /\ t = Targets[i] /\ t \in extracted)

SwapFailed == pc = "failed" /\ err \in {"RemoveFailed", "RenameFailed"}

\* the failures of install outside the swap loop
PlainFailures ==
    {"AddonsPathMissing", "TempdirFailed", "DownloadFailed", "CreateFailed",
     "CopyFailed", "OpenFailed", "ExtractFailed"}

\* C4: when a remove or rename of the swap loop fails, the run ends with a
\* partial-install error, a kind of error no failure outside the loop gives.
C4_PartialInstallReported ==
    SwapFailed
        => /\ ErrorType(err) = "PartialInstall"
           /\ \A e \in PlainFailures : ErrorType(e) # ErrorType(err)

\* C5: when the swap fails on the i-th target, every earlier target holds the
\* extracted content and the i-th and every later target holds what it held
\* when the run started.
C5_FailedSwapLeavesRestUntouched ==
    SwapFailed
        => \A k \in 1..Len(Targets) :
             /\ k < i => dirs[Targets[k]] = "new"
             /\ k >= i => dirs[Targets[k]] = dirs0[Targets[k]]

\* C6: when an installed version was read from the manifest, install is called
\* if and only if the comparison gave Less; on Equal or Greater the run ends
\* successfully with nothing requested, created or changed.
C6_InstallIffLess ==
    (installed.kind = "Ok" /\ pc \notin {"compare", "decide"})
        => /\ InstallCalled <=> cmp = "Lt"
           /\ cmp \in {"Eq", "Gt"}
                => /\ pc = "done"
                   /\ dirs = dirs0
                   /\ manifest.kind = "text"
                   /\ tempdir = "none"
                   /\ ~requested

C6_Witness ==
    installed.kind = "Ok" /\ cmp = "Eq" /\ pc = "done" /\ dirs0["ElvUI"] = "old"

\* C7: when the manifest file does not exist, reading it does not end the run:
\* install is called with the latest version, whatever that version is.
C7_MissingManifestInstalls ==
    (installed.kind = "NotFound" /\ pc \notin {"compare", "decide"})
        => installVersion = latest_version

C7_Witness ==
    /\ installed.kind = "NotFound"
    /\ latest_version = <<"e">>
    /\ installVersion = <<"e">>
    /\ pc = "tempdir"

\* C8: an I/O error other than a missing file while reading the manifest ends
\* the run with an error, and install is not called.
C8_ReadErrorPropagates ==
    installed.kind = "IoError"
        => /\ ~InstallCalled
           /\ Terminated => pc = "failed"

NoVersionLine(m) == m.kind = "text" /\ Captures(m.lines) = NoString

\* C9: when the manifest exists and has no line matching `Version: <value>`,
\* the run ends unsuccessfully right after reading it: install is not called
\* and nothing is requested, created or changed.
C9_NoVersionLineIsFatal ==
    (NoVersionLine(manifest) /\ installed # NotRead)
        => /\ pc = "panicked"
           /\ ~InstallCalled
           /\ install_needed = InstallNeededDefault
           /\ dirs = dirs0
           /\ tempdir = "none"
           /\ ~requested

C9_Witness ==
    /\ pc = "panicked"
    /\ installed.kind = "NoMatch"
    /\ manifest = [kind |-> "text", lines |-> <<[key |-> TRUE, value |-> <<>>]>>]

\* the value of the first `Version:` line, NoString when there is none
RECURSIVE FirstVersionValue(_)
FirstVersionValue(lines) ==
    IF lines = <<>> THEN NoString
    ELSE IF Head(lines).key THEN Head(lines).value
    ELSE FirstVersionValue(Tail(lines))

\* v is a non-empty run of digits and dots followed by a `|` and a suffix
HasBarSuffix(v) ==
    LET d == Run(v, Digits \cup {"."})
    IN  d # <<>> /\ Len(v) > Len(d) /\ v[Len(d) + 1] = "|"

BarSuffixRead ==
    /\ pc = "compare"
    /\ manifest.kind = "text"
    /\ HasBarSuffix(FirstVersionValue(manifest.lines))

LatestUnavailable ==
    \/ httpStatus = "error"
    \/ err \in {"FetchLatestFailed", "VersionElementMissing"}

\* C11: when the latest version cannot be obtained (network failure,
\* non-success HTTP status, response without the version element) the run
\* ends with an error at once: the manifest is not read, install is not
\* called and nothing under the add-ons root is changed.
C11_FetchFailureAborts ==
    LatestUnavailable
        => /\ pc = "failed"
           /\ installed = NotRead
           /\ ~InstallCalled
           /\ dirs = dirs0
           /\ tempdir = "none"

\* C12: after install returned success, every target directory holds the
\* extracted content of the archive's directory of the same name, which has
\* left the temporary directory, and the temporary directory is gone.
C12_SuccessInstallsAllTargets ==
    (pc = "done" /\ InstallCalled)
        => /\ \A t \in {"ElvUI", "ElvUI_Options", "ElvUI_Libraries"} :
                dirs[t] = "new" /\ t \in archive.dirs
           /\ manifest = FreshFile
           /\ tempdir = "removed"
           /\ zipfile = "absent"
           /\ extracted = {}

C12_Witness ==
    /\ pc = "done"
    /\ InstallCalled
    /\ dirs0 = [t \in AddonDirs |-> "old"]
    /\ \A t \in TargetSet : dirs[t] = "new"

\* the directories the release occupies: the top-level directories of its archive
ReleaseDirs == archive.dirs

C13_List == <<"ElvUI", "ElvUI_Options", "ElvUI_Libraries">>

FailedBeforeSwap ==
    \/ pc = "failed" /\ err \in {"DownloadFailed", "CreateFailed", "CopyFailed",
                                 "OpenFailed", "ExtractFailed"}
    \/ pc = "panicked" /\ InstallCalled

\* C16: while the download and the extraction have not both completed, and
\* when the download, the write of the archive file or the extraction failed,
\* every directory under the add-ons root is as it was when the run started.
C16_RootUntouchedBeforeSwap ==
    (pc \in {"install_check", "tempdir", "download", "create", "copy", "open",
             "zipnew", "extract"} \/ FailedBeforeSwap)
        => dirs = dirs0 /\ manifest # FreshFile

C16_Witness ==
    /\ pc = "failed"
    /\ err = "ExtractFailed"
    /\ dirs0 = [t \in AddonDirs |-> "old"]
    /\ dirs = dirs0

\* s has a segment between dots that is not a non-empty run of digits
HasBadSegment(s) ==
    /\ s # <<>>
    /\ \/ \E k \in 1..Len(s) : s[k] \notin Digits \cup {"."}
       \/ s[1] = "." \/ s[Len(s)] = "."
       \/ \E k \in 1..(Len(s) - 1) : s[k] = "." /\ s[k + 1] = "."

\* s is numbers separated by single dots
IsDottedNumeric(s) == s # <<>> /\ ~HasBadSegment(s)

\* the numbers between the dots of a dotted-numeric string
RECURSIVE Components(_)
Components(s) ==
    LET d == Run(s, Digits)
    IN  IF Len(d) = Len(s) THEN <<Number(d, 0)>>
        ELSE <<Number(d, 0)>> \o Components(Drop(s, Len(d) + 1))

Padded(c, n) == [k \in 1..n |-> IF k <= Len(c) THEN c[k] ELSE 0]

\* the order of two component lists: pad the shorter with zeros, decide at
\* the first position where they differ
NumericOrder(a, b) ==
    LET n == IF Len(a) > Len(b) THEN Len(a) ELSE Len(b)
        pa == Padded(a, n)
        pb == Padded(b, n)
        diff == {k \in 1..n : pa[k] # pb[k]}
    IN  IF diff = {} THEN "Eq"
        ELSE LET k == CHOOSE m \in diff : \A o \in diff : m <= o
             IN  IF pa[k] < pb[k] THEN "Lt" ELSE "Gt"

C15_BadVersionRejected ==
    (\/ latest_version # NoString /\ HasBadSegment(latest_version)
     \/ installed.kind = "Ok" /\ HasBadSegment(installed.version))
        => /\ cmp = "None"
           /\ ~InstallCalled
           /\ pc # "done"

====
